---------------------------- MODULE Spec2Model ----------------------------
(***************************************************************************)
(* A model of the KiCAD viewer plugin for Nextcloud.                       *)
(*                                                                         *)
(*   - the backend file proxy, lib/Controller/FileController.php, with    *)
(*     its routes, appinfo/routes.php: getFile, createPublicToken,         *)
(*     getPublicFile, getPublicFileByToken and the static token map;       *)
(*   - the view component, src/js/App/App.mjs: construct, fetchKiCadFile,  *)
(*     initKiCanvas, showErrorAndStopLoading, cleanupKiCanvas, destruct.   *)
(*                                                                         *)
(* Strings the code takes apart (file names, paths) are sequences of       *)
(* tokens: a token is a separator, "/" or ".", or a run of other           *)
(* characters, so <<"docs", "/", "notes", ".", "txt">> is docs/notes.txt.  *)
(* Bodies and header values are sequences of string chunks whose           *)
(* concatenation is the text; strlen is the sum of the chunks' lengths.    *)
(***************************************************************************)
EXTENDS Integers, Sequences, FiniteSets, TLC

VARIABLES
    publicTokens,   \* FileController::$publicTokens: token -> record, or NoRecord;
                    \* a static property, kept between the requests one process serves
    now,            \* the value time() returns
    ticks,          \* how often the clock has advanced (bounds the model)
    resp,           \* the last request the backend handled, with its response
    created,        \* history: what createPublicToken stored under the token, and when
    expiredSeen,    \* history: a redeem request was made for the token after its expiry
    app,            \* the App component instances: view -> its data and its position
    documentEmbeds, \* the document's kicanvas-embed elements, in document order
    lastCall,       \* the last call of a method of the component, with its result
    kicanvasEmbed,  \* this.kicanvasEmbed of the earlier component (unnamed/part_001),
                    \* with the children and the src of the element in its container
    objectUrls,     \* the URLs URL.createObjectURL has made: id -> "none", "live", "revoked"
    revokeTimers,   \* the URLs whose setTimeout(revokeObjectURL) is pending
    blobUrlsNotSupported  \* window.kiCanvasBlobUrlsNotSupported

serverVars == <<publicTokens, now, ticks, resp, created, expiredSeen>>

clientVars == <<app, documentEmbeds>>

adapterVars == <<lastCall, kicanvasEmbed, objectUrls, revokeTimers, blobUrlsNotSupported>>

vars == <<serverVars, clientVars, adapterVars>>

(***************************************************************************)
(* Bounds of the model.                                                    *)
(***************************************************************************)
MaxTicks == 1
MaxTokens == 2
MaxViews == 2
MaxUrls == 2

(***************************************************************************)
(* Program constants.                                                      *)
(***************************************************************************)
TokenTTL == 3600
STATUS_OK == 200
STATUS_UNAUTHORIZED == 401
STATUS_NOT_FOUND == 404
STATUS_GONE == 410
STATUS_INTERNAL_SERVER_ERROR == 500

(***************************************************************************)
(* PHP values.                                                             *)
(***************************************************************************)
\* null where a string is expected: getParam() of an absent parameter
NULL == <<"<null>">>

\* null where a user is expected: getUser() without a session
NoUser == "<no user>"

\* !$v for a string or null: null, "" and "0" are falsy
PhpFalsy(v) == v = NULL \/ v = <<>> \/ v = <<"0">>

RECURSIVE SumLen(_)
SumLen(chunks) ==
    IF chunks = <<>> THEN 0 ELSE Len(Head(chunks)) + SumLen(Tail(chunks))

\* strlen of a text given as chunks
strlen(chunks) == SumLen(chunks)

\* the index of the last occurrence of sep in s, 0 when there is none
LastIndexOf(s, sep) ==
    LET hits == {i \in 1..Len(s) : s[i] = sep}
    IN  IF hits = {} THEN 0 ELSE CHOOSE i \in hits : \A j \in hits : j <= i

\* basename: the tokens after the last "/"
Basename(name) == SubSeq(name, LastIndexOf(name, "/") + 1, Len(name))

\* pathinfo($filename, PATHINFO_EXTENSION): what follows the last "." of the
\* basename, "" when the basename has no "."
PathInfoExtension(name) ==
    LET base == Basename(name)
        dot  == LastIndexOf(base, ".")
    IN  IF dot = 0 \/ dot = Len(base) THEN "" ELSE base[dot + 1]

\* strtolower on the runs the model uses
strtolower(run) ==
    CASE run = "KICAD_SCH" -> "kicad_sch"
      [] run = "KICAD_PCB" -> "kicad_pcb"
      [] run = "TXT"       -> "txt"
      [] OTHER             -> run

(***************************************************************************)
(* The users and their storage trees (the host's root folder).             *)
(***************************************************************************)
Users == {"alice", "bob"}
Sessions == Users \cup {NoUser}

BoardPcb == <<"board", ".", "kicad_pcb">>
DocsNotes == <<"docs", "/", "notes", ".", "txt">>
Docs == <<"docs">>
LostSch == <<"lost", ".", "KICAD_SCH">>

Readme == <<"README">>
Zero == <<"0">>
LibMod == <<"lib", ".", "kicad_mod">>
OldPcb == <<"docs", "/", "old", ".", "KICAD_PCB">>

Paths == {BoardPcb, DocsNotes, Docs, LostSch, Readme, Zero, LibMod, OldPcb}

NotFoundMessage == "File not found in storage"
LockedMessage == "File is locked"
ExceptionMessages == {NotFoundMessage, LockedMessage}

\* what $userFolder->get($path) finds: a regular file, a folder, nothing
\* (get throws NotFoundException) or a file whose getContent throws
File(content, mime) == [kind |-> "file", content |-> content, mime |-> mime]
Folder == [kind |-> "folder"]
Absent == [kind |-> "absent"]
Locked == [kind |-> "locked"]

UserFolderGet(uid, path) ==
    CASE uid = "alice" /\ path = BoardPcb  -> File(<<"(kicad_pcb alice)">>, "application/x-kicad-pcb")
      [] uid = "alice" /\ path = DocsNotes -> File(<<"notes">>, "text/plain")
      [] uid = "alice" /\ path = Docs      -> Folder
      [] uid = "alice" /\ path = LostSch   -> Absent
      [] uid = "alice" /\ path = Zero      -> File(<<"zero">>, "application/octet-stream")
      [] uid = "alice" /\ path = LibMod    -> Folder
      [] uid = "bob"   /\ path = BoardPcb  -> File(<<"(kicad_pcb bob)", " v2">>, "application/x-kicad-pcb")
      [] uid = "bob"   /\ path = DocsNotes -> File(<<"notes", " of bob">>, "text/markdown")
      [] uid = "bob"   /\ path = Docs      -> Absent
      [] uid = "bob"   /\ path = LostSch   -> Locked
      [] uid = "bob"   /\ path = OldPcb    -> File(<<"(kicad_pcb old)">>, "application/x-kicad-pcb")
      [] OTHER -> Absent

IsRegularFile(uid, path) == UserFolderGet(uid, path).kind \in {"file", "locked"}


(***************************************************************************)
(* Responses.                                                              *)
(***************************************************************************)
NoHeaders == [h \in {} |-> ""]

\* new StreamResponse($content, $status): the status defaults to 200
StreamResponse(content, status) ==
    [status |-> status, body |-> content, headers |-> NoHeaders]

addHeader(response, name, value) ==
    [response EXCEPT !.headers = (name :> value) @@ response.headers]

Digit(d) ==
    CASE d = 0 -> "0" [] d = 1 -> "1" [] d = 2 -> "2" [] d = 3 -> "3" [] d = 4 -> "4"
      [] d = 5 -> "5" [] d = 6 -> "6" [] d = 7 -> "7" [] d = 8 -> "8" [] d = 9 -> "9"

\* (string)$n for n >= 0
RECURSIVE IntToString(_)
IntToString(n) ==
    IF n < 10 THEN Digit(n) ELSE IntToString(n \div 10) \o Digit(n % 10)

\* the six headers getFile, createMissingFileResponse, getPublicFile and
\* getPublicFileByToken add, in the code's order
WithFileHeaders(response, mimeType, dispositionName, content) ==
    LET r1 == addHeader(response, "Content-Type", mimeType)
        r2 == addHeader(r1, "Content-Disposition",
                        <<"inline; filename=\"">> \o dispositionName \o <<"\"">>)
        r3 == addHeader(r2, "Content-Length", IntToString(strlen(content)))
        r4 == addHeader(r3, "Access-Control-Allow-Origin", "*")
        r5 == addHeader(r4, "Access-Control-Allow-Methods", "GET")
    IN  addHeader(r5, "Access-Control-Allow-Headers", "Content-Type")

(***************************************************************************)
(* FileController: the private helpers.                                    *)
(***************************************************************************)
kicadExtensions ==
    {"kicad_sch", "kicad_pcb", "kicad_pro", "kicad_wks", "kicad_mod", "kicad_sym"}

isKiCadFile(filename) ==
    strtolower(PathInfoExtension(filename)) \in kicadExtensions

getKiCadMimeType(extension) ==
    CASE extension = "kicad_pcb" -> "application/x-kicad-pcb"
      [] extension = "kicad_sch" -> "application/x-kicad-schematic"
      [] extension = "kicad_pro" -> "application/x-kicad-project"
      [] extension = "kicad_wks" -> "application/x-kicad-workspace"
      [] extension = "kicad_mod" -> "application/x-kicad-footprint"
      [] extension = "kicad_sym" -> "application/x-kicad-symbol"
      [] OTHER -> "text/plain"

\* the values bin2hex(random_bytes(16)) takes in the model
Uuids == {"000102030405060708090a0b0c0d0e0f", "f0e0d0c0b0a090807060504030201000"}

\* random_bytes is drawn for the placeholder of a schematic only: the draws
\* a request for filename can see
RandomDraws(filename) ==
    IF ~PhpFalsy(filename) /\ strtolower(PathInfoExtension(filename)) = "kicad_sch"
    THEN Uuids
    ELSE {"000102030405060708090a0b0c0d0e0f"}

getMinimalKiCadContent(extension, rnd) ==
    CASE extension = "kicad_sch" ->
            << "(kicad_sch (version 20230121) (generator eeschema)\n  (uuid ",
               rnd,
               ")\n  (paper \"A4\")\n  (title_block\n    (title \"Missing File\")\n    (date \"\")\n    (rev \"\")\n    (company \"\")\n  )\n)" >>
      [] extension = "kicad_pcb" ->
            << "(kicad_pcb (version 20230121) (generator pcbnew)\n  (general\n    (thickness 1.6)\n  )\n  (paper \"A4\")\n  (title_block\n    (title \"Missing File\")\n  )\n  (layers\n    (0 \"F.Cu\" signal)\n    (31 \"B.Cu\" signal)\n  )\n)" >>
      [] extension = "kicad_pro" ->
            << "{\n  \"board\": {\n    \"design_settings\": {},\n    \"layer_presets\": [],\n    \"viewports\": []\n  },\n  \"boards\": [],\n  \"libraries\": {},\n  \"meta\": {\n    \"filename\": \"missing.kicad_pro\",\n    \"version\": 1\n  },\n  \"net_settings\": {},\n  \"pcbnew\": {},\n  \"schematic\": {},\n  \"sheets\": []\n}" >>
      [] OTHER -> << "# Missing KiCAD file" >>

\* a 200 response carrying placeholder content: no status is passed to
\* StreamResponse, so the status is its default
createMissingFileResponse(filename, rnd) ==
    LET extension == strtolower(PathInfoExtension(filename))
        mimeType  == getKiCadMimeType(extension)
        content   == getMinimalKiCadContent(extension, rnd)
    IN  WithFileHeaders(StreamResponse(content, STATUS_OK), mimeType, filename, content)

createErrorResponse(message, statusCode, filename, rnd) ==
    IF ~PhpFalsy(filename) /\ isKiCadFile(filename)
    THEN createMissingFileResponse(filename, rnd)
    ELSE StreamResponse(message, statusCode)

(***************************************************************************)
(* FileController: the public methods.  Each is an operator from the       *)
(* request and the token map to the response and the token map after it.   *)
(***************************************************************************)
NoRecord == [stored |-> FALSE]

TokenRecord(filePath, userId, expires) ==
    [stored |-> TRUE, filePath |-> filePath, userId |-> userId, expires |-> expires]

Tokens == 1..MaxTokens

isset(tokens, token) == tokens[token].stored

\* getFile($path, $filename): $path is never read
getFile(user, path, filename, rnd) ==
    IF user = NoUser
    THEN createErrorResponse(<<"User not found">>, STATUS_UNAUTHORIZED, filename, rnd)
    ELSE LET file == UserFolderGet(user, filename)
         IN  CASE file.kind = "absent" -> createMissingFileResponse(filename, rnd)
               [] file.kind = "folder" -> createMissingFileResponse(filename, rnd)
               [] file.kind = "locked" ->
                    createErrorResponse(<<"Server error: ", LockedMessage>>,
                                        STATUS_INTERNAL_SERVER_ERROR, filename, rnd)
               [] file.kind = "file" ->
                    WithFileHeaders(StreamResponse(file.content, STATUS_OK),
                                    file.mime, filename, file.content)

\* getPublicFile($filename): the session user's file, as getFile serves it
getPublicFile(user, filename, rnd) ==
    IF user = NoUser
    THEN createErrorResponse(<<"User not found">>, STATUS_UNAUTHORIZED, filename, rnd)
    ELSE LET file == UserFolderGet(user, filename)
         IN  CASE file.kind = "absent" -> createMissingFileResponse(filename, rnd)
               [] file.kind = "folder" -> createMissingFileResponse(filename, rnd)
               [] file.kind = "locked" ->
                    createErrorResponse(<<"Server error: ", LockedMessage>>,
                                        STATUS_INTERNAL_SERVER_ERROR, filename, rnd)
               [] file.kind = "file" ->
                    WithFileHeaders(StreamResponse(file.content, STATUS_OK),
                                    file.mime, filename, file.content)

\* the variant of createPublicToken that starts a new map for each token
createPublicToken_Resets(tokens, user, filePath, token, time) ==
    IF user = NoUser
    THEN [tokens |-> tokens, out |-> ("error" :> <<"User not found">>)]
    ELSE IF PhpFalsy(filePath)
    THEN [tokens |-> tokens, out |-> ("error" :> <<"File path is required">>)]
    ELSE [tokens |-> [t \in DOMAIN tokens |->
                         IF t = token THEN TokenRecord(filePath, user, time + TokenTTL)
                                      ELSE NoRecord],
          out    |-> ("token" :> token)]

\* createPublicToken(): token is the value of bin2hex(random_bytes(32)),
\* time the value of time()
createPublicToken(tokens, user, filePath, token, time) ==
    IF user = NoUser
    THEN [tokens |-> tokens, out |-> ("error" :> <<"User not found">>)]
    ELSE IF PhpFalsy(filePath)
    THEN [tokens |-> tokens, out |-> ("error" :> <<"File path is required">>)]
    ELSE [tokens |-> [tokens EXCEPT ![token] = TokenRecord(filePath, user, time + TokenTTL)],
          out    |-> ("token" :> token)]

\* getPublicFileByToken with one slip: "keepsExpired" leaves an expired token
\* in the map, "singleUse" removes a token it has served, "sessionUser" reads
\* the folder of the session user when there is one, "expiresEarly" tests >=
RedeemWithSlip(tokens, token, session, time, slip) ==
    IF ~isset(tokens, token)
    THEN [tokens |-> tokens,
          out    |-> StreamResponse(<<"Token not found">>, STATUS_NOT_FOUND)]
    ELSE LET tokenData == tokens[token]
             expired == IF slip = "expiresEarly" THEN time >= tokenData.expires
                                                 ELSE time > tokenData.expires
             uid == IF slip = "sessionUser" /\ session # NoUser THEN session
                                                                 ELSE tokenData.userId
         IN  IF expired
             THEN [tokens |-> IF slip = "keepsExpired" THEN tokens
                                                       ELSE [tokens EXCEPT ![token] = NoRecord],
                   out    |-> StreamResponse(<<"Token expired">>, STATUS_GONE)]
             ELSE LET file == UserFolderGet(uid, tokenData.filePath)
                  IN  [tokens |-> IF slip = "singleUse" /\ file.kind = "file"
                                  THEN [tokens EXCEPT ![token] = NoRecord] ELSE tokens,
                       out |->
                         CASE file.kind = "absent" ->
                                StreamResponse(<<"Server error: ", NotFoundMessage>>,
                                               STATUS_INTERNAL_SERVER_ERROR)
                           [] file.kind = "folder" ->
                                StreamResponse(<<"File not found">>, STATUS_NOT_FOUND)
                           [] file.kind = "locked" ->
                                StreamResponse(<<"Server error: ", LockedMessage>>,
                                               STATUS_INTERNAL_SERVER_ERROR)
                           [] file.kind = "file" ->
                                WithFileHeaders(StreamResponse(file.content, STATUS_OK),
                                                file.mime, Basename(tokenData.filePath),
                                                file.content)]

getPublicFileByToken_KeepsExpired(tokens, token, session, time) ==
    RedeemWithSlip(tokens, token, session, time, "keepsExpired")

getPublicFileByToken_SingleUse(tokens, token, session, time) ==
    RedeemWithSlip(tokens, token, session, time, "singleUse")

getPublicFileByToken_SessionUser(tokens, token, session, time) ==
    RedeemWithSlip(tokens, token, session, time, "sessionUser")

getPublicFileByToken_ExpiresEarly(tokens, token, session, time) ==
    RedeemWithSlip(tokens, token, session, time, "expiresEarly")

\* getPublicFileByToken($token) in a request whose session user is session
\* (NoUser without one), at time(): the session is not consulted
getPublicFileByToken(tokens, token, session, time) ==
    IF ~isset(tokens, token)
    THEN [tokens |-> tokens,
          out    |-> StreamResponse(<<"Token not found">>, STATUS_NOT_FOUND)]
    ELSE LET tokenData == tokens[token]
         IN  IF time > tokenData.expires
             THEN [tokens |-> [tokens EXCEPT ![token] = NoRecord],
                   out    |-> StreamResponse(<<"Token expired">>, STATUS_GONE)]
             ELSE LET file == UserFolderGet(tokenData.userId, tokenData.filePath)
                  IN  [tokens |-> tokens,
                       out |->
                         CASE file.kind = "absent" ->
                                StreamResponse(<<"Server error: ", NotFoundMessage>>,
                                               STATUS_INTERNAL_SERVER_ERROR)
                           [] file.kind = "folder" ->
                                StreamResponse(<<"File not found">>, STATUS_NOT_FOUND)
                           [] file.kind = "locked" ->
                                StreamResponse(<<"Server error: ", LockedMessage>>,
                                               STATUS_INTERNAL_SERVER_ERROR)
                           [] file.kind = "file" ->
                                WithFileHeaders(StreamResponse(file.content, STATUS_OK),
                                                file.mime, Basename(tokenData.filePath),
                                                file.content)]

(***************************************************************************)
(* appinfo/routes.php and the host's dispatcher.  A route names a method   *)
(* of FileController; the dispatcher fills each parameter of the method    *)
(* from the request parameter of the same name, null when there is none,   *)
(* and a null for a parameter declared string ends the request in the      *)
(* host's error response before the method runs.                           *)
(***************************************************************************)
PublicRouteHandler == "getPublicFile"

DispatchError ==
    StreamResponse(<<"Internal Server Error">>, STATUS_INTERNAL_SERVER_ERROR)

\* GET /public/{token}, with the request's other parameter filename (or NULL)
RoutePublicToken(tokens, token, filenameParam, user, rnd, time) ==
    CASE PublicRouteHandler = "getPublicFile" ->
            [tokens |-> tokens,
             out    |-> IF filenameParam = NULL
                        THEN DispatchError
                        ELSE getPublicFile(user, filenameParam, rnd)]
      [] PublicRouteHandler = "getPublicFileByToken" ->
            getPublicFileByToken(tokens, token, user, time)

(***************************************************************************)
(* The backend as a state machine: one action per request, and the clock.  *)
(***************************************************************************)
\* the filePath parameter of POST /api/public-token
TokenPaths == {DocsNotes, Docs}
FilePathParams == TokenPaths \cup {NULL, <<>>, <<"0">>}

\* the filename parameter a GET /public/{token} request may carry besides
FilenameParams == {NULL, BoardPcb}

\* the clock advances by the token lifetime, or by a second more
TickSteps == {TokenTTL, TokenTTL + 1}

NotCreated == [at |-> -1]

ServerInit ==
    /\ publicTokens = [t \in Tokens |-> NoRecord]
    /\ now = 0
    /\ ticks = 0
    /\ resp = [op |-> "none"]
    /\ created = [t \in Tokens |-> NotCreated]
    /\ expiredSeen = [t \in Tokens |-> FALSE]

Tick(d) ==
    /\ ticks < MaxTicks
    /\ now' = now + d
    /\ ticks' = ticks + 1
    /\ UNCHANGED <<publicTokens, resp, created, expiredSeen, clientVars, adapterVars>>

\* random_bytes yields a token never issued before: tokens are numbered in
\* the order of their issue
Issued == {t \in Tokens : created[t].at >= 0}
FreshToken == Cardinality(Issued) + 1

\* POST /api/public-token
CreatePublicToken(user, filePath) ==
    LET token == FreshToken
        r == createPublicToken(publicTokens, user, filePath, token, now)
        issued == "token" \in DOMAIN r.out
    IN  /\ issued => token \in Tokens
        /\ publicTokens' = r.tokens
        /\ resp' = [op  |-> "createPublicToken",
                    req |-> [user |-> user, filePath |-> filePath, at |-> now],
                    out |-> r.out]
        /\ created' = IF issued
                       THEN [created EXCEPT ![token] =
                                [at |-> now, userId |-> user, filePath |-> filePath]]
                       ELSE created
        /\ UNCHANGED <<now, ticks, expiredSeen, clientVars, adapterVars>>

\* whether the last response answered a redeem of token with 200
LastServed(token) ==
    /\ resp.op = "getPublicFileByToken"
    /\ resp.req.token = token
    /\ resp.out.status = STATUS_OK

\* a call of getPublicFileByToken, sent by caller (a session user or none).
\* The request record keeps, for the properties, whether a redeem of the
\* token had been made after its expiry before this one (after), and
\* whether the response before this one served the same token (again).
GetPublicFileByToken(token, caller) ==
    LET r == getPublicFileByToken(publicTokens, token, caller, now)
        late == created[token].at >= 0 /\ now > created[token].at + TokenTTL
    IN  /\ publicTokens' = r.tokens
        /\ resp' = [op  |-> "getPublicFileByToken",
                    req |-> [token |-> token, caller |-> caller, at |-> now,
                             after |-> expiredSeen[token], again |-> LastServed(token)],
                    out |-> r.out]
        /\ expiredSeen' = IF late THEN [expiredSeen EXCEPT ![token] = TRUE] ELSE expiredSeen
        /\ UNCHANGED <<now, ticks, created, clientVars, adapterVars>>

\* GET /public/{token} through the router
GetPublicRoute(token, filenameParam, caller, rnd) ==
    LET r == RoutePublicToken(publicTokens, token, filenameParam, caller, rnd, now)
    IN  /\ publicTokens' = r.tokens
        /\ resp' = [op  |-> "GET /public/{token}",
                    req |-> [token |-> token, filename |-> filenameParam,
                             caller |-> caller, at |-> now],
                    out |-> r.out]
        /\ UNCHANGED <<now, ticks, created, expiredSeen, clientVars, adapterVars>>

\* the {path} part of /api/file/{path}/{filename}
RoutePaths == {<<"public">>, <<"files">>, <<"docs">>}

\* GET /api/file/{path}/{filename}
GetFile(user, path, filename, rnd) ==
    /\ resp' = [op  |-> "getFile",
                req |-> [user |-> user, path |-> path, filename |-> filename],
                out |-> getFile(user, path, filename, rnd)]
    /\ UNCHANGED <<publicTokens, now, ticks, created, expiredSeen, clientVars, adapterVars>>

\* a call of getPublicFile with a filename
GetPublicFile(user, filename, rnd) ==
    /\ resp' = [op  |-> "getPublicFile",
                req |-> [user |-> user, filename |-> filename],
                out |-> getPublicFile(user, filename, rnd)]
    /\ UNCHANGED <<publicTokens, now, ticks, created, expiredSeen, clientVars, adapterVars>>

(***************************************************************************)
(* The view component, src/js/App/App.mjs.  The host's viewer makes one    *)
(* App instance per opened file.  An instance is a record of its data      *)
(* (isLoading), its loading observer, and the position of its construct    *)
(* call, an async function that is suspended at each await:                *)
(*   "created"      made, not mounted                                      *)
(*   "mounted"      mounted, the nextTick callback that calls construct    *)
(*                  is pending                                             *)
(*   "fetchDirect"  in fetchKiCadFile, awaiting fetch(url)                 *)
(*   "directText"   in fetchKiCadFile, awaiting response.text()            *)
(*   "fetchHelper"  in fetchKiCadFile, awaiting fetchFileFromUrl           *)
(*   "helperText"   in fetchKiCadFile, awaiting file.text()                *)
(*   "initWait"     in initKiCanvas, awaiting nextTick and the 100 ms timer*)
(*   "initTick"     in initKiCanvas, awaiting nextTick after isLoading     *)
(*                  was set to false                                       *)
(*   "ready"        initKiCanvas logged that it completed successfully     *)
(*   "failed"       showErrorAndStopLoading ran                            *)
(* beforeMount removes the kicanvas-embed elements of the document before  *)
(* the instance's own is rendered; an element whose removal throws stays,  *)
(* with every element after it.  initKiCanvas writes to the first element  *)
(* of the document.  An                                                    *)
(* element records which instance's load wrote its text content, its       *)
(* data-content attribute and its src (0: none), and an instance records   *)
(* in delivered which of these three writes of its load took effect.       *)
(***************************************************************************)
Views == 1..MaxViews

NoEmbed == [present |-> FALSE]

\* the kicanvas-embed element the template of instance v renders
NewEmbed(v) ==
    [present |-> TRUE, owner |-> v, textContent |-> 0, dataContent |-> 0, src |-> 0]

\* data(): isLoading starts true
NewApp ==
    [pc |-> "created", isLoading |-> TRUE, errors |-> 0, fetch |-> "none",
     delivered |-> {}, loadingObserver |-> "none", destroyed |-> FALSE]

\* what the widget does with each call initKiCanvas makes on it, in the
\* order of the calls: the assignment of textContent,
\* setAttribute('data-content'), the other setAttribute calls,
\* initialContentCallback(), the assignment of src, render() and the
\* getAttribute calls of the log entry that follows.  A method or property
\* may be absent, and a call that is not made, because an earlier one
\* threw, has the outcome "notCalled".
Outcome(text, data, attrs, callback, src, render, getAttribute) ==
    [textContent |-> text, dataContent |-> data, attributes |-> attrs,
     initialContentCallback |-> callback, src |-> src, render |-> render,
     getAttribute |-> getAttribute]

\* outcomes where a call of the outer try block throws before the inner one
OuterThrows ==
    { Outcome("throws", "notCalled", "notCalled", "notCalled", "notCalled", "notCalled",
              "notCalled"),
      Outcome("ok", "throws", "notCalled", "notCalled", "notCalled", "notCalled",
              "notCalled"),
      Outcome("ok", "ok", "throws", "notCalled", "notCalled", "notCalled",
              "notCalled") }

\* outcomes where the outer calls succeed and the inner try block runs;
\* getAttribute is called after it, whatever the inner block did
InnerRuns ==
    { Outcome("ok", "ok", "ok", "throws", "notCalled", "notCalled", g) :
         g \in {"ok", "throws"} }
      \cup { Outcome("ok", "ok", "ok", c, "throws", "notCalled", g) :
                c \in {"absent", "ok"}, g \in {"ok", "throws"} }
      \cup { Outcome("ok", "ok", "ok", c, x, r, g) :
                c \in {"absent", "ok"}, x \in {"absent", "ok"},
                r \in {"absent", "ok", "throws"}, g \in {"ok", "throws"} }

WidgetOutcomes == OuterThrows \cup InnerRuns

\* document.querySelector('kicanvas-embed'): the first such element of the
\* document, or NoEmbed
querySelector(embeds) == IF embeds = <<>> THEN NoEmbed ELSE Head(embeds)

embedElement == querySelector(documentEmbeds)

\* how a call of cleanupKiCanvas can go for a document with these elements:
\* 0 when no call throws, or the place of the first element whose
\* disconnect(), cleanup() or remove() throws
Throwers(embeds) == 0..Len(embeds)

\* cleanupKiCanvas(): the elements leave the document one by one; when a
\* call on an element throws, forEach ends in the catch block and that
\* element and every later one stay
cleanupKiCanvas(embeds, thrower) ==
    IF thrower = 0 THEN <<>> ELSE SubSeq(embeds, thrower, Len(embeds))

\* the render of the template of instance v puts its kicanvas-embed element
\* in the document, after the elements that were there before it
RenderTemplate(embeds, v) == Append(embeds, NewEmbed(v))

showErrorAndStopLoading_KeepsLoading(view) ==
    [view EXCEPT !.pc = "failed", !.errors = @ + 1]

\* showErrorAndStopLoading(message): the indicator is hidden and the error
\* is written to the console
showErrorAndStopLoading(view) ==
    [view EXCEPT !.pc = "failed", !.isLoading = FALSE, !.errors = @ + 1]

\* the step of the inner try block of initKiCanvas that puts content on
\* the widget, when it took effect: the assignment of src
ApiSteps(o) == IF o.src = "ok" THEN {"src"} ELSE {}

\* initKiCanvas from the 100 ms timer to the await that follows
\* isLoading = false, where swallow says that an exception of a widget call
\* in the outer try block is logged and the function goes on
InitWithSlip(view, embed, v, o, swallow) ==
    LET e1 == IF o.textContent = "ok" THEN [embed EXCEPT !.textContent = v] ELSE embed
        e2 == IF o.dataContent = "ok" THEN [e1 EXCEPT !.dataContent = v] ELSE e1
        e3 == IF o.src = "ok" THEN [e2 EXCEPT !.src = v] ELSE e2
    IN  IF ~embed.present
        THEN [view |-> showErrorAndStopLoading(view), embed |-> embed]
        ELSE IF (o.attributes = "ok" /\ o.getAttribute = "ok") \/ swallow
        THEN [view  |-> [view EXCEPT !.pc = "initTick", !.isLoading = FALSE,
                                     !.delivered =
                                        (IF o.textContent = "ok" THEN {"textContent"} ELSE {})
                                          \cup (IF o.dataContent = "ok" THEN {"data-content"} ELSE {})
                                          \cup ApiSteps(o)],
              embed |-> e3]
        ELSE [view |-> showErrorAndStopLoading(view), embed |-> e3]

initKiCanvas_SwallowsAll(view, embed, v, o) == InitWithSlip(view, embed, v, o, TRUE)

\* the variant of initKiCanvas that leaves the element alone when its
\* instance is torn down or the element belongs to another instance
initKiCanvas_ChecksCurrent(view, embed, v, o) ==
    IF view.destroyed \/ (embed.present /\ embed.owner # v)
    THEN [view |-> [view EXCEPT !.pc = "initTick", !.isLoading = FALSE], embed |-> embed]
    ELSE InitWithSlip(view, embed, v, o, FALSE)

\* the variant of initKiCanvas that shows its error and then rejects, so
\* that the catch block of construct shows an error too
initKiCanvas_Rejects(view, embed, v, o) ==
    LET r == InitWithSlip(view, embed, v, o, FALSE)
    IN  IF r.view.pc = "failed"
        THEN [view |-> showErrorAndStopLoading(r.view), embed |-> r.embed]
        ELSE r

\* initKiCanvas(fileContent, fileExtension) of instance v, from the 100 ms
\* timer to the await that follows isLoading = false
initKiCanvas(view, embed, v, o) ==
    IF ~embed.present
    THEN [view |-> showErrorAndStopLoading(view), embed |-> embed]
    ELSE IF o.textContent = "throws"
    THEN [view |-> showErrorAndStopLoading(view), embed |-> embed]
    ELSE LET e1 == [embed EXCEPT !.textContent = v]
         IN  IF o.dataContent = "throws"
             THEN [view |-> showErrorAndStopLoading(view), embed |-> e1]
             ELSE LET e2 == [e1 EXCEPT !.dataContent = v]
                      api == ApiSteps(o)
                      e3  == IF "src" \in api THEN [e2 EXCEPT !.src = v] ELSE e2
                  IN  IF o.attributes = "throws"
                      THEN [view |-> showErrorAndStopLoading(view), embed |-> e2]
                      ELSE IF o.getAttribute = "throws"
                      THEN [view |-> showErrorAndStopLoading(view), embed |-> e3]
                      ELSE [view  |-> [view EXCEPT !.pc = "initTick",
                                                   !.isLoading = FALSE,
                                                   !.delivered =
                                                      {"textContent", "data-content"} \cup api],
                            embed |-> e3]

\* destruct(): the observer is disconnected, the elements are removed
destruct(view) ==
    [view EXCEPT !.destroyed = TRUE,
                 !.loadingObserver = IF @ = "connected" THEN "disconnected" ELSE @]

ClientInit ==
    /\ app = [v \in Views |-> NewApp]
    /\ documentEmbeds = <<>>

\* a callback given to $nextTick waits to run: the nextTick callback of
\* mounted, or the continuation of initKiCanvas after await this.$nextTick().
\* It runs as a microtask, before any timer or network response is handled.
MicrotaskPending == \E v \in Views : app[v].pc \in {"mounted", "initTick"}

\* the continuation of initKiCanvas waits to run: it was queued by the
\* callback of the 100 ms timer, a task in which no hook of the host runs,
\* and runs when that callback returns.  The hooks of the host can run in
\* the task of mounted, before the nextTick callback of mounted.
ContinuationPending == \E v \in Views : app[v].pc = "initTick"

\* beforeMount, the render of the template, mounted
Mount(v, thrower) ==
    /\ ~ContinuationPending
    /\ app[v].pc = "created"
    /\ thrower \in Throwers(documentEmbeds)
    /\ app' = [app EXCEPT ![v].pc = "mounted"]
    /\ documentEmbeds' = RenderTemplate(cleanupKiCanvas(documentEmbeds, thrower), v)
    /\ UNCHANGED <<serverVars, adapterVars>>

\* the nextTick callback of mounted: construct(), up to await fetch(url)
Construct(v) ==
    /\ app[v].pc = "mounted"
    /\ app' = [app EXCEPT ![v].pc = "fetchDirect", ![v].isLoading = TRUE,
                          ![v].fetch = "pending"]
    /\ UNCHANGED <<documentEmbeds, serverVars, adapterVars>>

\* fetch(url) settles: with an ok response, whose text is then awaited, with
\* a response that is not ok, or by throwing
FetchDirect(v, outcome) ==
    /\ ~MicrotaskPending
    /\ app[v].pc = "fetchDirect"
    /\ app' = IF outcome = "ok"
              THEN [app EXCEPT ![v].pc = "directText"]
              ELSE [app EXCEPT ![v].pc = "fetchHelper"]
    /\ UNCHANGED <<documentEmbeds, serverVars, adapterVars>>

\* response.text() settles: the text is returned to construct, which calls
\* initKiCanvas, or the rejection is caught and the helper is called
DirectText(v, outcome) ==
    /\ ~MicrotaskPending
    /\ app[v].pc = "directText"
    /\ app' = IF outcome = "ok"
              THEN [app EXCEPT ![v].pc = "initWait", ![v].fetch = "resolved"]
              ELSE [app EXCEPT ![v].pc = "fetchHelper"]
    /\ UNCHANGED <<documentEmbeds, serverVars, adapterVars>>

\* fetchFileFromUrl settles: with a file, whose text is then awaited, or by
\* throwing; a rejection leaves fetchKiCadFile and is caught by construct
FetchHelper(v, outcome) ==
    /\ ~MicrotaskPending
    /\ app[v].pc = "fetchHelper"
    /\ app' = IF outcome = "ok"
              THEN [app EXCEPT ![v].pc = "helperText"]
              ELSE [app EXCEPT ![v] =
                        showErrorAndStopLoading([app[v] EXCEPT !.fetch = "rejected"])]
    /\ UNCHANGED <<documentEmbeds, serverVars, adapterVars>>

\* file.text() settles: the text is returned to construct, which calls
\* initKiCanvas, or the rejection is caught by construct
HelperText(v, outcome) ==
    /\ ~MicrotaskPending
    /\ app[v].pc = "helperText"
    /\ app' = IF outcome = "ok"
              THEN [app EXCEPT ![v].pc = "initWait", ![v].fetch = "resolved"]
              ELSE [app EXCEPT ![v] =
                        showErrorAndStopLoading([app[v] EXCEPT !.fetch = "rejected"])]
    /\ UNCHANGED <<documentEmbeds, serverVars, adapterVars>>

\* the 100 ms timer of initKiCanvas fires
InitKiCanvas(v, o) ==
    LET r == initKiCanvas(app[v], embedElement, v, o)
    IN  /\ ~MicrotaskPending
        /\ app[v].pc = "initWait"
        /\ app' = [app EXCEPT ![v] = r.view]
        /\ documentEmbeds' = IF documentEmbeds = <<>>
                             THEN documentEmbeds
                             ELSE [documentEmbeds EXCEPT ![1] = r.embed]
        /\ UNCHANGED <<serverVars, adapterVars>>

\* the nextTick after isLoading = false: setupKiCanvasLoadingObserver and
\* the report that the initialization completed
InitComplete(v) ==
    /\ app[v].pc = "initTick"
    /\ app' = [app EXCEPT ![v].pc = "ready", ![v].loadingObserver = "connected"]
    /\ UNCHANGED <<documentEmbeds, serverVars, adapterVars>>

\* beforeDestroy of a mounted instance
Destruct(v, thrower) ==
    /\ ~ContinuationPending
    /\ app[v].pc # "created"
    /\ ~app[v].destroyed
    /\ thrower \in Throwers(documentEmbeds)
    /\ app' = [app EXCEPT ![v] = destruct(app[v])]
    /\ documentEmbeds' = cleanupKiCanvas(documentEmbeds, thrower)
    /\ UNCHANGED <<serverVars, adapterVars>>

(***************************************************************************)
(* Methods of the component that are called with a widget and a content:   *)
(* the earlier component, src/unnamed/part_001 (names end in _part001      *)
(* where the two files use the same name), and the delivery methods of     *)
(* src/js/App/App.mjs.  A step is one call; the object URLs of the page,   *)
(* their revocation timers and the window's flag persist between calls.    *)
(***************************************************************************)
UrlIds == 1..MaxUrls

\* URL.createObjectURL returns a URL it has not returned before: URLs are
\* numbered in the order of their creation
FreshUrl == Cardinality({u \in UrlIds : objectUrls[u] # "none"}) + 1

NoKicanvasEmbed == [ref |-> FALSE, children |-> {}, src |-> 0]

\* the children a kicanvas-embed element can have when initKiCanvas or
\* destruct of part_001 finds it: none, both, or the second alone, which a
\* destruct whose second removeChild threw leaves; and what
\* container.querySelector finds
Children == {1, 2}
ChildSets == {{}, {2}, Children}
Elements_part001 ==
    {[found |-> FALSE]} \cup {[found |-> TRUE, children |-> c] : c \in ChildSets}

\* how setAttribute of a widget behaves: it works, it throws, or it works
\* for the name 'src' and throws for every other name
SetAttributeKinds == {"ok", "throws", "srcOnly"}

\* the calls of removeChild that can work before one throws; with as many
\* as there are children none throws
RemoveChildCalls == 0..Cardinality(Children)

\* what a call of initKiCanvas of part_001 meets: the container, the element
\* in it, and the outcomes of replaceChild, URL.createObjectURL and
\* setAttribute.  Without the container or the element the function returns
\* before it makes these calls, which then have the outcome "notCalled".
InitCalls_part001 ==
    { [container |-> c, element |-> [found |-> FALSE], replaceChild |-> "notCalled",
       createObjectURL |-> "notCalled", setAttribute |-> "notCalled"] :
         c \in {"missing", "found"} }
      \cup [container : {"found"}, element : {e \in Elements_part001 : e.found},
            replaceChild : {"ok", "throws"}, createObjectURL : {"ok", "throws"},
            setAttribute : SetAttributeKinds]

\* initKiCanvas of part_001.  embed is this.kicanvasEmbed with the children
\* and the src attribute of the element in the container.  The function
\* returns when the container or the element is not found; otherwise a new
\* element gets a copy of the attributes and replaces the one found, which
\* stays, with its children, when replaceChild throws; then the blob URL is
\* made, set as src, the controls attribute is set and the URL is given its
\* timer.
initKiCanvas_part001(embed, urls, timers, url, container, element, replaceChild, createObjectURL, setAttribute) ==
    IF container = "missing"
    THEN [embed |-> embed, urls |-> urls, timers |-> timers, completed |-> FALSE]
    ELSE IF ~element.found
    THEN [embed |-> NoKicanvasEmbed, urls |-> urls, timers |-> timers,
          completed |-> FALSE]
    ELSE LET original == [ref |-> TRUE, children |-> element.children, src |-> embed.src]
             newEmbed == [ref |-> TRUE, children |-> {},
                          src |-> IF setAttribute = "throws" THEN 0 ELSE embed.src]
             current  == IF replaceChild = "ok" THEN newEmbed ELSE original
         IN  IF createObjectURL = "throws"
             THEN [embed |-> current, urls |-> urls, timers |-> timers,
                   completed |-> FALSE]
             ELSE LET made == [urls EXCEPT ![url] = "live"]
                  IN  IF setAttribute = "throws"
                      THEN [embed |-> current, urls |-> made, timers |-> timers,
                            completed |-> FALSE]
                      ELSE IF setAttribute = "srcOnly"
                      THEN [embed |-> [current EXCEPT !.src = url], urls |-> made,
                            timers |-> timers, completed |-> FALSE]
                      ELSE [embed |-> [current EXCEPT !.src = url], urls |-> made,
                            timers |-> timers \cup {url}, completed |-> TRUE]

\* destruct of part_001: the children of this.kicanvasEmbed are removed one
\* by one, the first child first, until a call of removeChild throws, and
\* the reference is dropped.  removeChild is the number of calls that work
\* before one throws.
destruct_part001(embed, removeChild) ==
    IF embed.ref
    THEN [embed EXCEPT !.ref = FALSE,
                       !.children =
                          {c \in @ : Cardinality({d \in @ : d < c}) >= removeChild}]
    ELSE embed

\* how a promise fetchKiCadFile awaits can settle: fetch(url) with an ok
\* response, with a response that is not ok or by rejecting, the other
\* promises by resolving or rejecting
SettleOutcomes(awaiting) ==
    IF awaiting = "fetch" THEN {"ok", "notOk", "throws"} ELSE {"ok", "throws"}

\* a call of fetchKiCadFile that has just begun: fetch(url) is awaited.
\* calls are the requests made, settled the promises that settled with
\* their outcomes, out what the call returned ("pending" until it does)
fetchKiCadFileBegun ==
    [op |-> "fetchKiCadFile", calls |-> <<"fetch">>, awaiting |-> "fetch",
     settled |-> <<>>, out |-> "pending"]

\* the variant of fetchKiCadFile that has no fallback
fetchKiCadFile_NoFallback(call, outcome) ==
    LET c == [call EXCEPT !.settled = Append(@, <<call.awaiting, outcome>>)]
    IN  CASE call.awaiting = "fetch" /\ outcome = "ok" ->
                [c EXCEPT !.awaiting = "response.text"]
          [] call.awaiting = "response.text" /\ outcome = "ok" ->
                [c EXCEPT !.awaiting = "none", !.out = "directText"]
          [] OTHER ->
                [c EXCEPT !.awaiting = "none", !.out = "throws"]

\* fetchKiCadFile from one await to the next: the promise the call awaits
\* settles with the outcome, and the call goes on to its next await or
\* returns
fetchKiCadFile(call, outcome) ==
    LET c == [call EXCEPT !.settled = Append(@, <<call.awaiting, outcome>>)]
        helper == [c EXCEPT !.calls = Append(@, "fetchFileFromUrl"),
                            !.awaiting = "fetchFileFromUrl"]
    IN  CASE call.awaiting = "fetch" ->
                IF outcome = "ok" THEN [c EXCEPT !.awaiting = "response.text"] ELSE helper
          [] call.awaiting = "response.text" ->
                IF outcome = "ok"
                THEN [c EXCEPT !.awaiting = "none", !.out = "directText"]
                ELSE helper
          [] call.awaiting = "fetchFileFromUrl" ->
                IF outcome = "ok"
                THEN [c EXCEPT !.awaiting = "file.text"]
                ELSE [c EXCEPT !.awaiting = "none", !.out = "throws"]
          [] OTHER ->
                IF outcome = "ok"
                THEN [c EXCEPT !.awaiting = "none", !.out = "helperText"]
                ELSE [c EXCEPT !.awaiting = "none", !.out = "throws"]

\* the size ceiling of the data URL approach, in characters, and the
\* content lengths around it
DataUrlCeiling == 1000000
ContentLengths == {DataUrlCeiling - 1, DataUrlCeiling, DataUrlCeiling + 1}

\* the content lengths of the deliveries a view session makes: one that
\* loadContentIntoKiCanvas takes for a smaller file and one that it does not
SessionLengths == {DataUrlCeiling - 1, DataUrlCeiling}

\* a widget as loadContentIntoKiCanvas of part_001 uses it: setContent may
\* be absent, work or throw; assigning textContent and calling setAttribute
\* work or throw
Widgets_part001 ==
    [setContent : {"absent", "ok", "throws"},
     textContent : {"ok", "throws"},
     setAttribute : SetAttributeKinds]

\* what a delivery leaves on the widget: whether setContent was called with
\* the content, whether the text content was assigned, and what src is
\* ("none", "blob" or "data")
NoEffect == [setContent |-> FALSE, textContent |-> FALSE, src |-> "none"]

\* approach is one of the approaches a delivery tried
Tried(trace, approach) == \E i \in DOMAIN trace : trace[i] = approach

\* the state of a delivery of part_001 between two approaches
Progress_part001(flag, urls, timers) ==
    [loadSuccess |-> FALSE, trace |-> <<>>, effect |-> NoEffect,
     flag |-> flag, urls |-> urls, timers |-> timers]

\* Approach 1 of part_001: setContent, when it is a function
Approach1_part001(p, sourceElement) ==
    IF sourceElement.setContent = "absent"
    THEN p
    ELSE [p EXCEPT !.trace = Append(@, "setContent"),
                   !.effect.setContent = sourceElement.setContent = "ok",
                   !.loadSuccess = sourceElement.setContent = "ok"]

\* Approach 2 of part_001: textContent, then the data-format attribute
Approach2_part001(p, sourceElement) ==
    IF p.loadSuccess
    THEN p
    ELSE LET tried == [p EXCEPT !.trace = Append(@, "textContent")]
         IN  IF sourceElement.textContent = "throws"
             THEN tried
             ELSE [tried EXCEPT !.effect.textContent = TRUE,
                                !.loadSuccess = sourceElement.setAttribute = "ok"]

\* the variant of Approach 3 of part_001 that does not read
\* window.kiCanvasBlobUrlsNotSupported
Approach3_part001_IgnoresFlag(p, sourceElement, createObjectURL, url) ==
    IF p.loadSuccess
    THEN p
    ELSE LET tried == [p EXCEPT !.trace = Append(@, "blobUrl")]
         IN  IF createObjectURL = "throws"
             THEN [tried EXCEPT !.flag = TRUE]
             ELSE LET made == [tried EXCEPT !.urls[url] = "live"]
                  IN  IF sourceElement.setAttribute = "throws"
                      THEN [made EXCEPT !.flag = TRUE]
                      ELSE IF sourceElement.setAttribute = "srcOnly"
                      THEN [made EXCEPT !.effect.src = "blob", !.flag = TRUE]
                      ELSE [made EXCEPT !.effect.src = "blob",
                                        !.timers = @ \cup {url},
                                        !.loadSuccess = TRUE]

\* Approach 3 of part_001: a blob URL as src, revoked by a timer; a throw
\* sets window.kiCanvasBlobUrlsNotSupported
Approach3_part001(p, sourceElement, createObjectURL, url) ==
    IF p.loadSuccess \/ p.flag
    THEN p
    ELSE LET tried == [p EXCEPT !.trace = Append(@, "blobUrl")]
         IN  IF createObjectURL = "throws"
             THEN [tried EXCEPT !.flag = TRUE]
             ELSE LET made == [tried EXCEPT !.urls[url] = "live"]
                  IN  IF sourceElement.setAttribute = "throws"
                      THEN [made EXCEPT !.flag = TRUE]
                      ELSE IF sourceElement.setAttribute = "srcOnly"
                      THEN [made EXCEPT !.effect.src = "blob", !.flag = TRUE]
                      ELSE [made EXCEPT !.effect.src = "blob",
                                        !.timers = @ \cup {url},
                                        !.loadSuccess = TRUE]

\* Approach 4 of part_001: a data URL as src, for smaller files
Approach4_part001(p, sourceElement, length) ==
    IF p.loadSuccess \/ ~(length < DataUrlCeiling)
    THEN p
    ELSE LET tried == [p EXCEPT !.trace = Append(@, "dataUrl")]
         IN  IF sourceElement.setAttribute = "throws"
             THEN tried
             ELSE [tried EXCEPT !.effect.src = "data",
                                !.loadSuccess = sourceElement.setAttribute = "ok"]

\* loadContentIntoKiCanvas of part_001 for a content of the given length:
\* the approaches it tried, in order, what it left on the widget and in the
\* page, and the value it returns
loadContentIntoKiCanvas(sourceElement, length, createObjectURL, flag, urls, timers, url) ==
    Approach4_part001(
        Approach3_part001(
            Approach2_part001(
                Approach1_part001(Progress_part001(flag, urls, timers), sourceElement),
                sourceElement),
            sourceElement, createObjectURL, url),
        sourceElement, length)

\* the methods loadContentIntoKiCanvasEmbed tries, in its order
contentMethods == <<"setContent", "loadFromString", "loadContent", "setSource", "setData">>

\* what the widget has under each of these names
MethodsOf(setContent, loadFromString, setData) ==
    [m \in {contentMethods[i] : i \in DOMAIN contentMethods} |->
        CASE m = "setContent" -> setContent
          [] m = "loadFromString" -> loadFromString
          [] m = "setData" -> setData
          [] OTHER -> "absent"]

\* a widget as loadContentIntoKiCanvasEmbed uses it: reading the functions
\* of its prototype works or throws; each content method may be absent,
\* resolve ("ok"), throw when it is called ("throws") or return a promise
\* that rejects ("rejects"); setAttribute works or throws; and the
\* properties src, content and data may be absent, assignable ("ok"), throw
\* at the first assignment ("throws") or take src and throw at a later
\* assignment ("srcThenThrows")
EmbedWidgets ==
    [inspect : {"ok", "throws"},
     methods : {MethodsOf("absent", "absent", "absent"),
                MethodsOf("ok", "absent", "absent"),
                MethodsOf("throws", "absent", "absent"),
                MethodsOf("throws", "ok", "absent"),
                MethodsOf("absent", "absent", "ok"),
                MethodsOf("throws", "throws", "absent"),
                MethodsOf("rejects", "absent", "absent"),
                MethodsOf("rejects", "ok", "absent")},
     setAttribute : {"ok", "throws"},
     props : {"absent", "ok", "throws", "srcThenThrows"}]

\* Approach 1 of loadContentIntoKiCanvasEmbed from the i-th method on, up to
\* its next await: a method that is absent is skipped and one that throws
\* when it is called is caught.  trace are the methods called, awaiting the
\* place of the method whose promise is awaited, 0 when no method is left.
RECURSIVE DirectMethods(_, _)
DirectMethods(widget, i) ==
    IF i > Len(contentMethods)
    THEN [awaiting |-> 0, trace |-> <<>>]
    ELSE LET m == contentMethods[i]
             rest == DirectMethods(widget, i + 1)
         IN  CASE widget.methods[m] = "absent" -> rest
               [] widget.methods[m] = "throws" -> [rest EXCEPT !.trace = <<m>> \o @]
               [] OTHER -> [awaiting |-> i, trace |-> <<m>>]

\* Approaches 2 and 3 of loadContentIntoKiCanvasEmbed: the data URL as src
\* attribute, then the blob assigned to the properties
Fallbacks(widget) ==
    IF widget.setAttribute = "ok"
    THEN [out |-> "true", trace |-> <<"dataUrl">>,
          effect |-> [NoEffect EXCEPT !.src = "data"]]
    ELSE LET trace == <<"dataUrl", "blobObject">>
         IN  CASE widget.props = "throws" ->
                    [out |-> "false", trace |-> trace, effect |-> NoEffect]
               [] widget.props = "srcThenThrows" ->
                    [out |-> "false", trace |-> trace,
                     effect |-> [NoEffect EXCEPT !.src = "blobObject"]]
               [] widget.props = "ok" ->
                    [out |-> "true", trace |-> trace,
                     effect |-> [NoEffect EXCEPT !.src = "blobObject"]]
               [] OTHER ->
                    [out |-> "true", trace |-> trace, effect |-> NoEffect]

\* loadContentIntoKiCanvasEmbed goes on with the i-th content method, to its
\* next await or, through Approaches 2 and 3, to its end
DirectMethodsFrom(call, i) ==
    LET direct == DirectMethods(call.widget, i)
        rest == Fallbacks(call.widget)
    IN  IF direct.awaiting # 0
        THEN [call EXCEPT !.awaiting = direct.awaiting, !.trace = @ \o direct.trace]
        ELSE [call EXCEPT !.awaiting = 0, !.trace = @ \o direct.trace \o rest.trace,
                          !.effect = rest.effect, !.out = rest.out]

\* a call of loadContentIntoKiCanvasEmbed for a content of the given length,
\* up to its first await: the approaches it tried, what it left on the
\* widget, and whether it returned true, returned false, rejected or is
\* "pending"
loadContentIntoKiCanvasEmbedBegun(widget, length) ==
    LET call == [op |-> "loadContentIntoKiCanvasEmbed", widget |-> widget,
                 length |-> length, awaiting |-> 0, trace |-> <<>>,
                 effect |-> NoEffect, out |-> "pending"]
    IN  IF widget.inspect = "throws"
        THEN [call EXCEPT !.out = "throws"]
        ELSE DirectMethodsFrom(call, 1)

\* loadContentIntoKiCanvasEmbed from one await to the next: the promise of
\* the content method it awaits settles; when it resolved the call returns
\* true, when it rejected the call goes on with the next method
loadContentIntoKiCanvasEmbed(call) ==
    IF call.widget.methods[contentMethods[call.awaiting]] = "ok"
    THEN [call EXCEPT !.awaiting = 0, !.effect = [NoEffect EXCEPT !.setContent = TRUE],
                      !.out = "true"]
    ELSE DirectMethodsFrom(call, call.awaiting + 1)

\* what a call of tryBlobUrl meets: the outcomes of URL.createObjectURL, of
\* setAttribute and of getAttribute, "notCalled" for a call that is not
\* made because an earlier one threw
TryBlobUrlCalls ==
    { [createObjectURL |-> "throws", setAttribute |-> "notCalled",
       getAttribute |-> "notCalled"] }
      \cup { [createObjectURL |-> "ok", setAttribute |-> x, getAttribute |-> "notCalled"] :
                x \in {"throws", "srcOnly"} }
      \cup { [createObjectURL |-> "ok", setAttribute |-> "ok", getAttribute |-> g] :
                g \in {"ok", "throws"} }

\* tryBlobUrl: a blob URL as src, the other attributes, a log entry that
\* reads them back, and a timer that revokes the URL; an exception is logged
\* and thrown again
tryBlobUrl(setAttribute, getAttribute, createObjectURL, urls, timers, url) ==
    IF createObjectURL = "throws"
    THEN [out |-> "throws", effect |-> NoEffect, urls |-> urls, timers |-> timers]
    ELSE LET made == [urls EXCEPT ![url] = "live"]
         IN  IF setAttribute = "throws"
             THEN [out |-> "throws", effect |-> NoEffect, urls |-> made,
                   timers |-> timers]
             ELSE IF setAttribute = "srcOnly" \/ getAttribute = "throws"
             THEN [out |-> "throws", effect |-> [NoEffect EXCEPT !.src = "blob"],
                   urls |-> made, timers |-> timers]
             ELSE [out |-> "true", effect |-> [NoEffect EXCEPT !.src = "blob"],
                   urls |-> made, timers |-> timers \cup {url}]

\* tryDataUrl: throws for a content that is too large, then sets a data URL
\* as src
tryDataUrl(setAttribute, length) ==
    IF length > DataUrlCeiling
    THEN [out |-> "throws", trace |-> <<>>, effect |-> NoEffect]
    ELSE IF setAttribute = "throws"
    THEN [out |-> "throws", trace |-> <<"dataUrl">>, effect |-> NoEffect]
    ELSE IF setAttribute = "srcOnly"
    THEN [out |-> "throws", trace |-> <<"dataUrl">>,
          effect |-> [NoEffect EXCEPT !.src = "data"]]
    ELSE [out |-> "true", trace |-> <<"dataUrl">>,
          effect |-> [NoEffect EXCEPT !.src = "data"]]

\* the extensions the mappers are called with: the six of KiCad, other
\* extensions, and names every JavaScript object inherits
Extensions ==
    kicadExtensions \cup {"", "txt", "KICAD_PCB", "constructor", "__proto__", "toString"}

Undefined == "<undefined>"

\* mimeMap[extension] of App.mjs: mimeMap is an object literal, so a name
\* that is not one of its six keys is looked up in Object.prototype; the
\* function or object found there is written as its string conversion
App_mimeMap(extension) ==
    CASE extension \in kicadExtensions -> getKiCadMimeType(extension)
      [] extension = "constructor" -> "function Object() { [native code] }"
      [] extension = "toString" -> "function toString() { [native code] }"
      [] extension = "__proto__" -> "[object Object]"
      [] OTHER -> Undefined

\* getKiCadMimeType of App.mjs: mimeMap[extension] || 'text/plain'
App_getKiCadMimeType(extension) ==
    IF App_mimeMap(extension) = Undefined THEN "text/plain" ELSE App_mimeMap(extension)

\* the basename prop of each instance: the first view shows board.kicad_pcb,
\* a later one another file
basename(v) == IF v = 1 THEN BoardPcb ELSE LostSch

\* String.prototype.toLowerCase on the runs the model uses
toLowerCase(run) == strtolower(run)

\* fileBasename.split('.').pop().toLowerCase()
fileExtension(fileBasename) == toLowerCase(fileBasename[Len(fileBasename)])

\* the MIME type initKiCanvas of instance v resolves
mimeType(v) == App_getKiCadMimeType(fileExtension(basename(v)))

AdapterInit ==
    /\ lastCall = [op |-> "none"]
    /\ kicanvasEmbed = NoKicanvasEmbed
    /\ objectUrls = [u \in UrlIds |-> "none"]
    /\ revokeTimers = {}
    /\ blobUrlsNotSupported = FALSE

\* the nextTick callback of construct of part_001: initKiCanvas
InitKiCanvas_part001(container, element, replaceChild, createObjectURL, setAttribute) ==
    LET r == initKiCanvas_part001(kicanvasEmbed, objectUrls, revokeTimers, FreshUrl,
                                  container, element, replaceChild,
                                  createObjectURL, setAttribute)
    IN  /\ container = "found" /\ element.found /\ createObjectURL = "ok"
              => FreshUrl \in UrlIds
        /\ lastCall' = [op |-> "initKiCanvas_part001",
                        container |-> container, element |-> element,
                        replaceChild |-> replaceChild,
                        createObjectURL |-> createObjectURL, setAttribute |-> setAttribute,
                        out |-> r.completed]
        /\ kicanvasEmbed' = r.embed
        /\ objectUrls' = r.urls
        /\ revokeTimers' = r.timers
        /\ UNCHANGED <<blobUrlsNotSupported, serverVars, clientVars>>

\* beforeDestroy of part_001: destruct
Destruct_part001(removeChild) ==
    /\ lastCall' = [op |-> "destruct_part001", removeChild |-> removeChild]
    /\ kicanvasEmbed' = destruct_part001(kicanvasEmbed, removeChild)
    /\ UNCHANGED <<objectUrls, revokeTimers, blobUrlsNotSupported, serverVars, clientVars>>

\* a revocation timer fires: URL.revokeObjectURL(fileUrl)
RevokeTimer(u) ==
    /\ u \in revokeTimers
    /\ objectUrls' = [objectUrls EXCEPT ![u] = "revoked"]
    /\ revokeTimers' = revokeTimers \ {u}
    /\ UNCHANGED <<lastCall, kicanvasEmbed, blobUrlsNotSupported, serverVars, clientVars>>

\* fetchKiCadFile is called: it calls fetch(url) and awaits it
FetchKiCadFile ==
    /\ lastCall' = fetchKiCadFileBegun
    /\ UNCHANGED <<kicanvasEmbed, objectUrls, revokeTimers, blobUrlsNotSupported,
                   serverVars, clientVars>>

\* the promise the call of fetchKiCadFile awaits settles, and the call runs
\* to its next await or to its end
FetchKiCadFileSettles(outcome) ==
    /\ lastCall.op = "fetchKiCadFile"
    /\ lastCall.awaiting # "none"
    /\ outcome \in SettleOutcomes(lastCall.awaiting)
    /\ lastCall' = fetchKiCadFile(lastCall, outcome)
    /\ UNCHANGED <<kicanvasEmbed, objectUrls, revokeTimers, blobUrlsNotSupported,
                   serverVars, clientVars>>

\* a call of loadContentIntoKiCanvas of part_001
LoadContentIntoKiCanvas(sourceElement, length, createObjectURL) ==
    LET r == loadContentIntoKiCanvas(sourceElement, length, createObjectURL,
                                     blobUrlsNotSupported, objectUrls, revokeTimers,
                                     FreshUrl)
    IN  /\ Tried(r.trace, "blobUrl") /\ createObjectURL = "ok" => FreshUrl \in UrlIds
        /\ lastCall' = [op |-> "loadContentIntoKiCanvas", widget |-> sourceElement,
                        length |-> length, createObjectURL |-> createObjectURL,
                        flagBefore |-> blobUrlsNotSupported,
                        trace |-> r.trace, effect |-> r.effect,
                        out |-> IF r.loadSuccess THEN "true" ELSE "false"]
        /\ blobUrlsNotSupported' = r.flag
        /\ objectUrls' = r.urls
        /\ revokeTimers' = r.timers
        /\ UNCHANGED <<kicanvasEmbed, serverVars, clientVars>>

\* loadContentIntoKiCanvasEmbed is called and runs to its first await, or to
\* its end when no content method is awaited
LoadContentIntoKiCanvasEmbed(widget, length) ==
    /\ lastCall' = loadContentIntoKiCanvasEmbedBegun(widget, length)
    /\ UNCHANGED <<kicanvasEmbed, objectUrls, revokeTimers, blobUrlsNotSupported,
                   serverVars, clientVars>>

\* the promise of the content method the call of loadContentIntoKiCanvasEmbed
\* awaits settles, and the call runs to its next await or to its end
LoadContentIntoKiCanvasEmbedSettles ==
    /\ lastCall.op = "loadContentIntoKiCanvasEmbed"
    /\ lastCall.out = "pending"
    /\ lastCall' = loadContentIntoKiCanvasEmbed(lastCall)
    /\ UNCHANGED <<kicanvasEmbed, objectUrls, revokeTimers, blobUrlsNotSupported,
                   serverVars, clientVars>>

\* a call of tryBlobUrl
TryBlobUrl(setAttribute, getAttribute, createObjectURL) ==
    LET r == tryBlobUrl(setAttribute, getAttribute, createObjectURL, objectUrls,
                        revokeTimers, FreshUrl)
    IN  /\ createObjectURL = "ok" => FreshUrl \in UrlIds
        /\ lastCall' = [op |-> "tryBlobUrl", setAttribute |-> setAttribute,
                        getAttribute |-> getAttribute,
                        createObjectURL |-> createObjectURL, effect |-> r.effect,
                        out |-> r.out]
        /\ objectUrls' = r.urls
        /\ revokeTimers' = r.timers
        /\ UNCHANGED <<kicanvasEmbed, blobUrlsNotSupported, serverVars, clientVars>>

\* a call of tryDataUrl
TryDataUrl(setAttribute, length) ==
    LET r == tryDataUrl(setAttribute, length)
    IN  /\ lastCall' = [op |-> "tryDataUrl", setAttribute |-> setAttribute,
                        length |-> length, trace |-> r.trace, effect |-> r.effect,
                        out |-> r.out]
        /\ UNCHANGED <<kicanvasEmbed, objectUrls, revokeTimers, blobUrlsNotSupported,
                       serverVars, clientVars>>

\* a call of getKiCadMimeType of App.mjs
App_GetKiCadMimeType(extension) ==
    /\ lastCall' = [op |-> "App.getKiCadMimeType", extension |-> extension,
                    out |-> App_getKiCadMimeType(extension)]
    /\ UNCHANGED <<kicanvasEmbed, objectUrls, revokeTimers, blobUrlsNotSupported,
                   serverVars, clientVars>>

\* a call of getKiCadMimeType of FileController
GetKiCadMimeType(extension) ==
    /\ lastCall' = [op |-> "FileController::getKiCadMimeType", extension |-> extension,
                    out |-> getKiCadMimeType(extension)]
    /\ UNCHANGED <<kicanvasEmbed, objectUrls, revokeTimers, blobUrlsNotSupported,
                   serverVars, clientVars>>

Init == ServerInit /\ ClientInit /\ AdapterInit

Next ==
    \/ \E d \in TickSteps : Tick(d)
    \/ \E user \in Sessions, filePath \in FilePathParams :
          CreatePublicToken(user, filePath)
    \/ \E token \in Tokens, caller \in Sessions : GetPublicFileByToken(token, caller)
    \/ \E token \in Tokens, filenameParam \in FilenameParams, caller \in Sessions :
          \E rnd \in RandomDraws(filenameParam) :
              GetPublicRoute(token, filenameParam, caller, rnd)

Spec == Init /\ [][Next]_vars

\* the two handlers that read no token: every request, in any order
FileNext ==
    \/ \E user \in Sessions, path \in RoutePaths, filename \in Paths :
          \E rnd \in RandomDraws(filename) : GetFile(user, path, filename, rnd)
    \/ \E user \in Sessions, filename \in Paths :
          \E rnd \in RandomDraws(filename) : GetPublicFile(user, filename, rnd)

FileSpec == Init /\ [][FileNext]_vars

\* the requests that make and redeem tokens, with requests for a file of
\* the session user between them
TokenNext ==
    \/ \E d \in TickSteps : Tick(d)
    \/ \E user \in Sessions, filePath \in FilePathParams :
          CreatePublicToken(user, filePath)
    \/ \E token \in Tokens, caller \in Sessions : GetPublicFileByToken(token, caller)
    \/ \E user \in Sessions : \E rnd \in RandomDraws(DocsNotes) :
          GetFile(user, <<"files">>, DocsNotes, rnd)

TokenSpec == Init /\ [][TokenNext]_vars

\* the view instances of one page, in any interleaving of their steps
ClientNext ==
    \/ \E v \in Views, thrower \in 0..MaxViews : Mount(v, thrower)
    \/ \E v \in Views : Construct(v)
    \/ \E v \in Views, outcome \in {"ok", "notOk", "throws"} : FetchDirect(v, outcome)
    \/ \E v \in Views, outcome \in {"ok", "throws"} : DirectText(v, outcome)
    \/ \E v \in Views, outcome \in {"ok", "throws"} : FetchHelper(v, outcome)
    \/ \E v \in Views, outcome \in {"ok", "throws"} : HelperText(v, outcome)
    \/ \E v \in Views, o \in WidgetOutcomes : InitKiCanvas(v, o)
    \/ \E v \in Views : InitComplete(v)
    \/ \E v \in Views, thrower \in 0..MaxViews : Destruct(v, thrower)

ClientSpec == Init /\ [][ClientNext]_vars

\* the callbacks the page has queued run: Vue's nextTick queue and the
\* window's timers are served, whereas a fetch may stay pending for ever
ClientFairness ==
    \A v \in Views :
        /\ WF_vars(Construct(v))
        /\ WF_vars(\E o \in WidgetOutcomes : InitKiCanvas(v, o))
        /\ WF_vars(InitComplete(v))

FairClientSpec == ClientSpec /\ ClientFairness

\* the calls of the methods of the component that make or revoke object
\* URLs, in any order
AdapterNext ==
    \/ \E c \in InitCalls_part001 :
          InitKiCanvas_part001(c.container, c.element, c.replaceChild, c.createObjectURL,
                               c.setAttribute)
    \/ \E removeChild \in RemoveChildCalls : Destruct_part001(removeChild)
    \/ \E u \in UrlIds : RevokeTimer(u)
    \/ \E sourceElement \in Widgets_part001, length \in SessionLengths,
          createObjectURL \in {"ok", "throws"} :
          LoadContentIntoKiCanvas(sourceElement, length, createObjectURL)
    \/ \E c \in TryBlobUrlCalls :
          TryBlobUrl(c.setAttribute, c.getAttribute, c.createObjectURL)

AdapterSpec == Init /\ [][AdapterNext]_vars

\* the calls of the fetcher and of the delivery methods, in any order, in a
\* page where no timer fires
CallNext ==
    \/ FetchKiCadFile
    \/ \E outcome \in {"ok", "notOk", "throws"} : FetchKiCadFileSettles(outcome)
    \/ \E widget \in EmbedWidgets, length \in ContentLengths :
          LoadContentIntoKiCanvasEmbed(widget, length)
    \/ LoadContentIntoKiCanvasEmbedSettles
    \/ \E c \in TryBlobUrlCalls :
          TryBlobUrl(c.setAttribute, c.getAttribute, c.createObjectURL)
    \/ \E setAttribute \in SetAttributeKinds, length \in ContentLengths :
          TryDataUrl(setAttribute, length)
    \/ \E sourceElement \in Widgets_part001, length \in ContentLengths,
          createObjectURL \in {"ok", "throws"} :
          LoadContentIntoKiCanvas(sourceElement, length, createObjectURL)
    \/ \E extension \in Extensions : App_GetKiCadMimeType(extension)
    \/ \E extension \in Extensions : GetKiCadMimeType(extension)

CallSpec == Init /\ [][CallNext]_vars

(***************************************************************************)
(* Properties of the backend.                                              *)
(***************************************************************************)
\* the last response answered a redeem of token k
RedeemOf(k) == resp.op = "getPublicFileByToken" /\ resp.req.token = k

\* the bytes of the file at the (userId, filePath) stored for k at creation
StoredFile(k) == UserFolderGet(created[k].userId, created[k].filePath)

HasLeak(body) == \E i \in 1..Len(body) : body[i] \in ExceptionMessages

\* C1 as the spec states it: after createPublicToken stored a token at t0,
\* every redeem at t <= t0 + 3600 returns 200 with the stored file's bytes,
\* the first redeem at t > t0 + 3600 returns 410, every later one 404.
C1_LifecycleAsStated ==
    \A k \in Tokens :
        RedeemOf(k) /\ created[k].at >= 0 =>
            /\ resp.req.at <= created[k].at + 3600 =>
                  /\ resp.out.status = 200
                  /\ resp.out.body = StoredFile(k).content
            /\ resp.req.at > created[k].at + 3600 /\ ~resp.req.after =>
                  resp.out.status = 410
            /\ resp.req.at > created[k].at + 3600 /\ resp.req.after =>
                  resp.out.status = 404

\* C1, amended: the same lifecycle, where a redeem at t <= t0 + 3600 returns
\* 200 with the file's bytes provided the stored (userId, filePath) names a
\* readable regular file; createPublicToken stores any path it is given.
C1_TokenLifecycle ==
    \A k \in Tokens :
        RedeemOf(k) /\ created[k].at >= 0 =>
            /\ resp.req.at <= created[k].at + 3600 /\ StoredFile(k).kind = "file" =>
                  /\ resp.out.status = 200
                  /\ resp.out.body = StoredFile(k).content
            /\ resp.req.at > created[k].at + 3600 /\ ~resp.req.after =>
                  resp.out.status = 410
            /\ resp.req.at > created[k].at + 3600 /\ resp.req.after =>
                  resp.out.status = 404

\* C1's case: a token was served, then answered 410, and is now answered 404
C1_Witness ==
    \E k \in Tokens :
        /\ RedeemOf(k)
        /\ created[k].at >= 0
        /\ StoredFile(k).kind = "file"
        /\ resp.req.after
        /\ resp.out.status = 404

\* C2 as the spec states it: GET /public/{token} without a session user
\* returns 404 for a token not in the map, 410 for a stored, expired one and
\* 200 with the file's bytes for a stored, unexpired one, and the route is
\* bound to the handler that looks the token up.
C2_PublicRouteRedeems ==
    [][\A k \in Tokens, f \in FilenameParams, rnd \in Uuids :
          GetPublicRoute(k, f, NoUser, rnd) =>
              /\ PublicRouteHandler = "getPublicFileByToken"
              /\ ~isset(publicTokens, k) => resp'.out.status = 404
              /\ isset(publicTokens, k) /\ now > publicTokens[k].expires =>
                    resp'.out.status = 410
              /\ ( /\ isset(publicTokens, k)
                   /\ now <= publicTokens[k].expires
                   /\ StoredFile(k).kind = "file" ) =>
                    /\ resp'.out.status = 200
                    /\ resp'.out.body = StoredFile(k).content]_vars

\* C3 as the spec states it: getFile answers 401 without a session user, 404
\* when the name is no regular file of the user, 500 on another storage
\* exception, and 200 only for a regular file that was found.
C3_GetFileStatus ==
    resp.op = "getFile" =>
        LET user == resp.req.user
            kind == UserFolderGet(user, resp.req.filename).kind
        IN  /\ user = NoUser => resp.out.status = 401
            /\ user # NoUser /\ kind \in {"absent", "folder"} => resp.out.status = 404
            /\ user # NoUser /\ kind = "locked" => resp.out.status = 500
            /\ resp.out.status = 200 => user # NoUser /\ kind = "file"

\* C4 as the spec states it: when the name is no regular file (the lookup
\* throws not-found or yields a folder), getFile answers 404 and its body
\* carries no text of the storage exception.
C4_MissingFileIs404 ==
    resp.op = "getFile" /\ resp.req.user # NoUser
        /\ UserFolderGet(resp.req.user, resp.req.filename).kind \in {"absent", "folder"} =>
        /\ resp.out.status = 404
        /\ ~HasLeak(resp.out.body)

\* C5 as the spec states it: with a session user and a non-empty filePath,
\* createPublicToken stores exactly the record {filePath, userId, now + 3600}
\* under a fresh token and returns the token; without a user or a filePath it
\* returns an error and no token and leaves the map as it was.
C5_CreateStoresOrFails ==
    [][\A user \in Sessions, filePath \in FilePathParams :
          CreatePublicToken(user, filePath) =>
              IF user # NoUser /\ filePath # NULL /\ filePath # <<>>
              THEN /\ DOMAIN resp'.out = {"token"}
                   /\ ~isset(publicTokens, resp'.out.token)
                   /\ created[resp'.out.token].at = -1
                   /\ publicTokens' =
                        [publicTokens EXCEPT ![resp'.out.token] =
                            TokenRecord(filePath, user, now + 3600)]
              ELSE /\ "error" \in DOMAIN resp'.out
                   /\ "token" \notin DOMAIN resp'.out
                   /\ publicTokens' = publicTokens]_vars

\* C6: a redeem answered 200 leaves the token map as it was, so a further
\* redeem of the token, by anyone, now or at any time up to its expiry, is
\* answered 200 too: a token is not single-use.
C6_RedeemKeepsToken ==
    [][ticks' = ticks /\ resp'.op = "getPublicFileByToken" /\ resp'.out.status = 200 =>
          LET k == resp'.req.token
          IN  /\ isset(publicTokens, k)
              /\ publicTokens' = publicTokens
              /\ \A t \in {now, publicTokens[k].expires}, c2 \in Sessions :
                    getPublicFileByToken(publicTokens', k, c2, t).out.status = 200]_vars

\* C6's case: a token answered 200 twice in a row is still in the map
C6_Witness ==
    \E k \in Tokens :
        /\ LastServed(k)
        /\ resp.req.again
        /\ isset(publicTokens, k)

\* what the authenticated endpoint answers the token's owner for the stored path
AuthenticatedAnswer(k) ==
    getFile(created[k].userId, <<"public">>, created[k].filePath,
            CHOOSE rnd \in Uuids : TRUE)

CorsHeaders(h) ==
    /\ h["Access-Control-Allow-Origin"] = "*"
    /\ h["Access-Control-Allow-Methods"] = "GET"
    /\ h["Access-Control-Allow-Headers"] = "Content-Type"

\* C7 as the spec states it: a redeem answered 200 serves the file of the
\* stored userId and filePath whoever asks, with the Content-Type,
\* Content-Disposition and Content-Length of the authenticated endpoint and
\* the three CORS headers.
C7_SameAsAuthenticated ==
    \A k \in Tokens :
        LastServed(k) =>
            /\ resp.out.body = StoredFile(k).content
            /\ resp.out.headers["Content-Type"] = AuthenticatedAnswer(k).headers["Content-Type"]
            /\ resp.out.headers["Content-Length"] = AuthenticatedAnswer(k).headers["Content-Length"]
            /\ resp.out.headers["Content-Disposition"] =
                    AuthenticatedAnswer(k).headers["Content-Disposition"]
            /\ CorsHeaders(resp.out.headers)

\* C7, amended: a redeem answered 200 serves the file of the stored userId
\* and filePath whoever asks, with the Content-Type and Content-Length of the
\* authenticated endpoint, the three CORS headers, and a Content-Disposition
\* that names the file's base name (the authenticated endpoint names the
\* requested path, so the two agree only for a path without a directory).
C7_ServesStoredFile ==
    \A k \in Tokens :
        LastServed(k) =>
            /\ StoredFile(k).kind = "file"
            /\ resp.out.body = StoredFile(k).content
            /\ DOMAIN resp.out.headers = DOMAIN AuthenticatedAnswer(k).headers
            /\ resp.out.headers["Content-Type"] = AuthenticatedAnswer(k).headers["Content-Type"]
            /\ resp.out.headers["Content-Length"] = AuthenticatedAnswer(k).headers["Content-Length"]
            /\ resp.out.headers["Content-Disposition"] =
                    <<"inline; filename=\"">> \o Basename(created[k].filePath) \o <<"\"">>
            /\ CorsHeaders(resp.out.headers)

\* C7's case: a token of alice's notes is served to bob, who has another
\* file at the same path
C7_Witness ==
    \E k \in Tokens :
        /\ LastServed(k)
        /\ created[k].userId = "alice"
        /\ created[k].filePath = DocsNotes
        /\ resp.req.caller = "bob"
        /\ UserFolderGet("bob", DocsNotes).kind = "file"
        /\ resp.out.body # UserFolderGet("bob", DocsNotes).content

(***************************************************************************)
(* Properties of the view component.                                       *)
(***************************************************************************)
\* the fetch of instance v settled: fetchKiCadFile returned or threw
FetchSettled(v) == app[v].fetch \in {"resolved", "rejected"}

\* the states of the view's lifecycle
Ready(v) == app[v].pc = "ready" /\ ~app[v].isLoading /\ app[v].errors = 0
Failed(v) == app[v].pc = "failed"

\* every delivery call initKiCanvas makes on the widget throws
EveryCallThrows ==
    {o \in WidgetOutcomes :
        \A call \in DOMAIN o : o[call] \in {"throws", "notCalled"}}

\* C8: the view never spins for ever: once the fetch of a construct call
\* has settled, resolved or rejected, isLoading eventually becomes false,
\* whether the fetch failed, the widget element is missing, a widget call
\* throws or the delivery succeeds.
C8_LoadingEnds ==
    \A v \in Views : FetchSettled(v) ~> ~app[v].isLoading

\* C8's case: the fetch resolved, the widget element was gone when
\* initKiCanvas looked for it, and the indicator is hidden
C8_Witness ==
    \E v \in Views :
        /\ app[v].fetch = "resolved"
        /\ Failed(v)
        /\ app[v].delivered = {}
        /\ ~embedElement.present
        /\ ~app[v].isLoading

\* C9: a view is Ready (indicator hidden, initialization reported complete,
\* no error surfaced) only if its fetch succeeded and at least one delivery
\* step into the widget succeeded, and when every delivery call on the
\* widget throws the view ends Failed, not Ready.
C9_ReadyOnlyDelivered ==
    [][\A v \in Views :
          /\ Ready(v)' => app'[v].fetch = "resolved" /\ app'[v].delivered # {}
          /\ \A o \in EveryCallThrows :
                InitKiCanvas(v, o) => Failed(v)' /\ app'[v].delivered = {}]_vars

\* C9's case: a view is Ready on the strength of the text content and the
\* data-content attribute alone, the widget's src not having been set
C9_Witness ==
    \E v \in Views :
        /\ Ready(v)
        /\ app[v].fetch = "resolved"
        /\ app[v].delivered = {"textContent", "data-content"}

\* C10 as the spec states it: when a load ends Failed, the indicator is
\* hidden, an error was surfaced, and the widget element holds no text
\* content, data-content attribute or src that the failed load set.
C10_FailedLeavesNoContent ==
    \A v \in Views :
        Failed(v) =>
            /\ ~app[v].isLoading
            /\ app[v].errors >= 1
            /\ embedElement.present =>
                  /\ embedElement.textContent # v
                  /\ embedElement.dataContent # v
                  /\ embedElement.src # v

(***************************************************************************)
(* Properties of the delivery methods and of the earlier component.        *)
(***************************************************************************)
\* C11 as the spec states it: when destruct has run, the widget has no
\* child nodes and every object URL the view session made is revoked at
\* that moment, without waiting for its revocation timer.
C11_TeardownRevokesUrls ==
    [][(\E removeChild \in RemoveChildCalls : Destruct_part001(removeChild)) =>
          /\ kicanvasEmbed'.children = {}
          /\ \A u \in UrlIds : objectUrls'[u] # "live"]_vars

\* the helper was called in the last call of fetchKiCadFile
HelperCalled == \E i \in DOMAIN lastCall.calls : lastCall.calls[i] = "fetchFileFromUrl"

\* the promise p of the last call of fetchKiCadFile settled with outcome o
Settled(p, o) == \E i \in DOMAIN lastCall.settled : lastCall.settled[i] = <<p, o>>

\* the direct attempt of the last call of fetchKiCadFile failed as the spec
\* lists it, failed at all, succeeded; the helper attempt failed
DirectFailedAsStated == Settled("fetch", "throws") \/ Settled("fetch", "notOk")
DirectFailed == DirectFailedAsStated \/ Settled("response.text", "throws")
DirectSucceeded == Settled("response.text", "ok")
HelperFailed == Settled("fetchFileFromUrl", "throws") \/ Settled("file.text", "throws")

\* C12 as the spec states it: the helper is called only when the direct
\* request threw or its response status was not a success.
C12_HelperOnlyAfterStatedFailure ==
    lastCall.op = "fetchKiCadFile" /\ HelperCalled => DirectFailedAsStated

\* C12: fetchKiCadFile calls fetch first; it calls fetchFileFromUrl exactly
\* when the direct attempt failed, where failed means that the request threw,
\* that the response status was not a success, or that reading the text of a
\* successful response failed; when the direct attempt succeeds the direct
\* text is returned; it throws exactly when both attempts fail.
C12_FetcherFallsBack ==
    lastCall.op = "fetchKiCadFile" =>
        /\ Head(lastCall.calls) = "fetch"
        /\ HelperCalled <=> DirectFailed
        /\ HelperCalled => lastCall.calls = <<"fetch", "fetchFileFromUrl">>
        /\ DirectSucceeded => lastCall.out = "directText"
        /\ lastCall.out = "throws" <=> DirectFailed /\ HelperFailed
        /\ lastCall.out = "helperText" <=> DirectFailed /\ Settled("file.text", "ok")
        /\ lastCall.out = "pending" <=> lastCall.awaiting # "none"

C12_Witness ==
    /\ lastCall.op = "fetchKiCadFile"
    /\ Settled("response.text", "throws")
    /\ Settled("file.text", "ok")
    /\ lastCall.out = "helperText"

\* the last call was a delivery of a content into a widget, and it ended
Delivered ==
    /\ lastCall.op \in {"loadContentIntoKiCanvas", "loadContentIntoKiCanvasEmbed"}
    /\ lastCall.out # "pending"

\* the place of an approach in the stated order: native set-content, text
\* content, blob, data URL
Rank(approach) ==
    CASE approach = "textContent" -> 2
      [] approach \in {"blobUrl", "blobObject"} -> 3
      [] approach = "dataUrl" -> 4
      [] OTHER -> 1

\* C13 as the spec states it: a delivery tries native set-content, text
\* content, blob URL and data URL in this order and stops at the first
\* success; a later strategy is tried only after every earlier one failed or
\* was unavailable, so a blob or a data URL is tried only after the text
\* content, which every widget has, was tried.
C13_FixedOrder ==
    Delivered =>
        /\ \A i, j \in DOMAIN lastCall.trace :
              i < j => Rank(lastCall.trace[i]) <= Rank(lastCall.trace[j])
        /\ \A i \in DOMAIN lastCall.trace :
              Rank(lastCall.trace[i]) >= 3 => Tried(lastCall.trace, "textContent")
        /\ lastCall.effect.setContent =>
              \A i \in DOMAIN lastCall.trace : Rank(lastCall.trace[i]) = 1

\* the widget of the last delivery has a native content method that works
NativeWorks ==
    IF lastCall.op = "loadContentIntoKiCanvas"
    THEN lastCall.widget.setContent = "ok"
    ELSE \E i \in DOMAIN contentMethods :
            lastCall.widget.methods[contentMethods[i]] = "ok"

\* C14 as the spec states it: a delivery into a widget with a working native
\* content method returns true after calling that method with the content,
\* and does nothing of another strategy: it tries only native methods,
\* assigns no text content, makes no blob URL and sets no src.
C14_NativeSetterOnly ==
    Delivered /\ NativeWorks =>
        /\ lastCall.out = "true"
        /\ lastCall.effect = [setContent |-> TRUE, textContent |-> FALSE, src |-> "none"]
        /\ lastCall.trace # <<>>
        /\ \A i \in DOMAIN lastCall.trace : Rank(lastCall.trace[i]) = 1

\* the object URL made last is live and has a revocation timer pending
LastUrlScheduled ==
    /\ FreshUrl - 1 \in UrlIds
    /\ objectUrls[FreshUrl - 1] = "live"
    /\ FreshUrl - 1 \in revokeTimers

\* C15 as the spec states it: a delivery into a widget that has no native
\* content method and offers only attributes succeeds through the blob URL
\* strategy: it makes an object URL, sets it as src and schedules its
\* revocation.
C15_AttributesOnlyUsesBlobUrl ==
    /\ lastCall.op = "loadContentIntoKiCanvas"
    /\ lastCall.widget.setContent = "absent"
    /\ lastCall.widget.setAttribute = "ok"
    /\ lastCall.createObjectURL = "ok"
    => /\ lastCall.out = "true"
       /\ Tried(lastCall.trace, "blobUrl")
       /\ lastCall.effect.src = "blob"
       /\ LastUrlScheduled

\* a widget of part_001 on which only the data URL approach can work, in a
\* page where URL.createObjectURL throws
DataUrlOnly == [setContent |-> "absent", textContent |-> "throws", setAttribute |-> "ok"]

\* C16 as the spec states it: no data URL is built or set for a content
\* longer than 1,000,000 characters, a delivery of such a content with no
\* other strategy available reports failure, and the data URL steps of the
\* implementations apply the same ceiling, also at exactly 1,000,000.
C16_DataUrlCeiling ==
    /\ lastCall.op \in {"loadContentIntoKiCanvas", "loadContentIntoKiCanvasEmbed",
                        "tryDataUrl"}
       /\ lastCall.out # "pending"
       /\ lastCall.length > DataUrlCeiling
       => /\ ~Tried(lastCall.trace, "dataUrl")
          /\ lastCall.effect.src # "data"
          /\ lastCall.effect = NoEffect => lastCall.out # "true"
    /\ lastCall.op = "tryDataUrl" /\ lastCall.length = DataUrlCeiling
       => (Tried(lastCall.trace, "dataUrl")
             <=> Tried(loadContentIntoKiCanvas(DataUrlOnly, lastCall.length, "throws",
                                               FALSE, objectUrls, revokeTimers,
                                               FreshUrl).trace, "dataUrl"))

\* C17 as the spec states it: no exception of a delivery strategy leaves the
\* delivery: for every widget and every content a delivery method returns
\* true or false, and never throws or rejects.
C17_NoExceptionEscapes ==
    /\ lastCall.op \in {"loadContentIntoKiCanvas", "loadContentIntoKiCanvasEmbed",
                        "tryBlobUrl", "tryDataUrl"}
    /\ lastCall.out # "pending"
    => lastCall.out \in {"true", "false"}

\* the MIME type the spec gives an extension
StatedMime(extension) ==
    CASE extension = "kicad_pcb" -> "application/x-kicad-pcb"
      [] extension = "kicad_sch" -> "application/x-kicad-schematic"
      [] extension = "kicad_pro" -> "application/x-kicad-project"
      [] extension = "kicad_wks" -> "application/x-kicad-workspace"
      [] extension = "kicad_mod" -> "application/x-kicad-footprint"
      [] extension = "kicad_sym" -> "application/x-kicad-symbol"
      [] OTHER -> "text/plain"

\* C18 as the spec states it: both mappers return the vendor MIME type for
\* each of the six KiCad extensions and text/plain for every other
\* extension.
C18_MimeForTotal ==
    lastCall.op \in {"App.getKiCadMimeType", "FileController::getKiCadMimeType"}
        => lastCall.out = StatedMime(lastCall.extension)

(***************************************************************************)
(* Properties of a switch between two files.                               *)
(***************************************************************************)
\* C20: a file switch does not cancel a fetch in flight, and a late response
\* is still written into the widget: destruct leaves a pending fetch
\* pending and the instance where it was, and whenever an instance, torn
\* down or not, gets through its writes in initKiCanvas, the element that is
\* in the document then, whichever instance it was made for, holds that
\* instance's content.
C20_StaleWriteLands ==
    [][\A v \in Views :
          /\ ~app[v].destroyed /\ app'[v].destroyed
                => app'[v].fetch = app[v].fetch /\ app'[v].pc = app[v].pc
          /\ app[v].pc = "initWait" /\ app'[v].pc = "initTick"
                => embedElement'.present /\ embedElement'.textContent = v]_vars

\* view 1 started its fetch and was torn down, view 2 was mounted, and the
\* content of view 1 is in the element of view 2
C20_Witness ==
    \E a, b \in Views :
        /\ a # b
        /\ app[a].destroyed
        /\ app[a].fetch = "resolved"
        /\ ~app[b].destroyed
        /\ embedElement.present
        /\ embedElement.owner = b
        /\ embedElement.textContent = a

\* C19 as the spec states it: when the view of board.kicad_pcb is ready in
\* its own widget element, its fetch has completed, the MIME type resolved
\* is application/x-kicad-pcb, the delivery has succeeded and isLoading is
\* false; no content is on the widget before the fetch of its view has
\* completed; and in the final state of a view the element holds nothing of
\* a file viewed before.
C19_EndToEnd ==
    /\ \A v \in Views :
          embedElement.present /\ embedElement.textContent = v
              => app[v].fetch = "resolved"
    /\ \A v \in Views :
          Ready(v) /\ embedElement.present /\ embedElement.owner = v
              => /\ app[v].fetch = "resolved"
                 /\ v = 1 => mimeType(v) = "application/x-kicad-pcb"
                 /\ "textContent" \in app[v].delivered
                 /\ ~app[v].isLoading
                 /\ embedElement.textContent = v
                 /\ embedElement.dataContent = v
                 /\ embedElement.src \in {0, v}

\* C21 as the spec states it: every object URL a delivery makes has its
\* revocation scheduled on a timer when it is made, so a URL is live only
\* while its timer is pending, and it is revoked when the timer fires.
C21_EveryUrlScheduled ==
    \A u \in UrlIds : objectUrls[u] = "live" => u \in revokeTimers

(***************************************************************************)
(* Further properties of the backend.                                      *)
(***************************************************************************)
\* C22: a token is expired exactly when time() > expires.  A redeem of a
\* stored token is answered 410 exactly when the clock is past expires, and
\* that redeem removes the token; a redeem at time() = expires is not
\* answered 410, and is answered 200 when the stored file is there; and a
\* token leaves the map only in a redeem of that token that is answered 410.
C22_StrictExpiry ==
    [][/\ publicTokens' # publicTokens =>
             IF resp'.op = "getPublicFileByToken"
             THEN LET k == resp'.req.token
                  IN  /\ isset(publicTokens, k)
                      /\ publicTokens' = [publicTokens EXCEPT ![k] = NoRecord]
                      /\ resp'.out.status = 410
                      /\ now > publicTokens[k].expires
             ELSE \A k \in Tokens : isset(publicTokens, k) => isset(publicTokens', k)
       /\ ticks' = ticks /\ resp'.op = "getPublicFileByToken" /\ resp'.req.at = now =>
             LET k == resp'.req.token
             IN  isset(publicTokens, k) =>
                    /\ resp'.out.status = 410 <=> now > publicTokens[k].expires
                    /\ resp'.out.status = 410 => ~isset(publicTokens', k)
                    /\ now = publicTokens[k].expires /\ StoredFile(k).kind = "file"
                          => resp'.out.status = 200]_vars

\* C22's case: a token redeemed at the second it expires is served
C22_Witness ==
    \E k \in Tokens :
        /\ RedeemOf(k)
        /\ created[k].at >= 0
        /\ resp.req.at = created[k].at + TokenTTL
        /\ resp.out.status = 200
        /\ isset(publicTokens, k)

(***************************************************************************)
(* Further properties of the view.                                         *)
(***************************************************************************)
\* C23 as the spec states it: the mount of a view clears the widget first:
\* the mount leaves the document with one kicanvas-embed element, made for
\* this view and with nothing on it, whatever a view before had left there,
\* and when a view starts its fetch the document holds no element of a view
\* mounted before it and no element with content.
C23_MountClearsWidget ==
    [][\A v \in Views :
          /\ app[v].pc = "created" /\ app'[v].pc = "mounted"
                => documentEmbeds' = <<NewEmbed(v)>>
          /\ app[v].pc = "mounted" /\ app'[v].pc = "fetchDirect"
                => /\ Len(documentEmbeds) <= 1
                   /\ \A i \in DOMAIN documentEmbeds :
                         documentEmbeds[i] = NewEmbed(documentEmbeds[i].owner)]_vars

\* C24 as the spec states it: for every extension the mapper of the client
\* and the mapper of the backend return the same MIME type.
C24_MappersAgree ==
    lastCall.op \in {"App.getKiCadMimeType", "FileController::getKiCadMimeType"}
        => /\ lastCall.out \in {App_getKiCadMimeType(lastCall.extension),
                                getKiCadMimeType(lastCall.extension)}
           /\ App_getKiCadMimeType(lastCall.extension)
                 = getKiCadMimeType(lastCall.extension)

\* C25 as the spec states it: once destruct has run on a view, no loading
\* observer of that view is connected, also when destruct ran while the
\* fetch was in flight and initKiCanvas completed afterwards.
C25_NoObserverAfterDestruct ==
    \A v \in Views : app[v].destroyed => app[v].loadingObserver # "connected"

\* C26: a run of construct shows at most one error: showErrorAndStopLoading
\* has been called once when the load of a view failed, in the fetch or in
\* initKiCanvas, and not at all otherwise.
C26_AtMostOneError ==
    \A v \in Views :
        /\ app[v].errors <= 1
        /\ app[v].errors = 1 <=> Failed(v)

\* C26's case: initKiCanvas failed after the fetch had resolved, and one
\* error was shown
C26_Witness ==
    \E v \in Views :
        /\ app[v].fetch = "resolved"
        /\ Failed(v)
        /\ app[v].errors = 1

\* C27: a step changes the token map in one key only.  The map changes only
\* when createPublicToken answers with a token, which was not in the map and
\* now holds the record of this request, or when a redeem answers 410, which
\* removes the token redeemed; every other record stays as it was, and
\* getFile, a creation that fails, a redeem of an unknown token and a redeem
\* that is served leave the map alone.
C27_OneKeyOnly ==
    [][/\ publicTokens' # publicTokens =>
             \E k \in Tokens :
                 /\ \A j \in Tokens \ {k} : publicTokens'[j] = publicTokens[j]
                 /\ \/ /\ resp'.op = "createPublicToken"
                       /\ resp'.out = ("token" :> k)
                       /\ ~isset(publicTokens, k)
                       /\ publicTokens'[k] = TokenRecord(resp'.req.filePath, resp'.req.user,
                                                         now + TokenTTL)
                    \/ /\ resp'.op = "getPublicFileByToken"
                       /\ resp'.req.token = k
                       /\ resp'.out.status = 410
                       /\ isset(publicTokens, k)
                       /\ publicTokens'[k] = NoRecord
       /\ resp' # resp /\ resp'.op = "createPublicToken" /\ "token" \in DOMAIN resp'.out =>
             /\ ~isset(publicTokens, resp'.out["token"])
             /\ isset(publicTokens', resp'.out["token"])]_vars

\* C27's case: a token was made while another was in the map, and both are
\* there
C27_Witness ==
    /\ resp.op = "createPublicToken"
    /\ "token" \in DOMAIN resp.out
    /\ \E j \in Tokens : j # resp.out["token"] /\ isset(publicTokens, j)
    /\ isset(publicTokens, resp.out["token"])

\* C28: two requests of getFile that differ only in the {path} parameter of
\* the route receive the same status, headers and body.
C28_PathIgnored ==
    [][/\ resp.op = "getFile"
       /\ resp'.op = "getFile"
       /\ resp'.req.user = resp.req.user
       /\ resp'.req.filename = resp.req.filename
       /\ resp'.req.path # resp.req.path
       => resp'.out = resp.out]_vars

\* the blob-URL attempt of the last call of loadContentIntoKiCanvas threw
BlobAttemptThrew(c) ==
    /\ c.op = "loadContentIntoKiCanvas"
    /\ Tried(c.trace, "blobUrl")
    /\ c.createObjectURL = "throws" \/ c.widget.setAttribute # "ok"

\* C29: window.kiCanvasBlobUrlsNotSupported is sticky.  It is set by a call
\* of loadContentIntoKiCanvas whose blob-URL attempt threw and by nothing
\* else, no step clears it, and every call of loadContentIntoKiCanvas made
\* while it is set tries no blob URL and makes no object URL, whatever the
\* widget and the content.  The deliver call is loadContentIntoKiCanvas, the
\* only code that reads or writes the flag; initKiCanvas of part_001 and
\* tryBlobUrl make their blob URL without a look at it.
C29_StickyFlag ==
    [][/\ blobUrlsNotSupported => blobUrlsNotSupported'
       /\ ~blobUrlsNotSupported /\ blobUrlsNotSupported' => BlobAttemptThrew(lastCall')
       /\ /\ lastCall'.op = "loadContentIntoKiCanvas"
          /\ \/ lastCall' # lastCall
             \/ \E u \in UrlIds : objectUrls[u] # "live" /\ objectUrls'[u] = "live"
          => /\ lastCall'.flagBefore = blobUrlsNotSupported
             /\ BlobAttemptThrew(lastCall') => blobUrlsNotSupported'
             /\ blobUrlsNotSupported =>
                   /\ ~Tried(lastCall'.trace, "blobUrl")
                   /\ lastCall'.effect.src # "blob"
                   /\ objectUrls' = objectUrls]_vars

\* C29's case: the flag was set when loadContentIntoKiCanvas was called for
\* a widget that an unset flag would have served by a blob URL, and the call
\* used the data URL
C29_Witness ==
    /\ lastCall.op = "loadContentIntoKiCanvas"
    /\ lastCall.flagBefore
    /\ blobUrlsNotSupported
    /\ lastCall.widget = [setContent |-> "absent", textContent |-> "throws",
                          setAttribute |-> "ok"]
    /\ lastCall.createObjectURL = "ok"
    /\ ~Tried(lastCall.trace, "blobUrl")
    /\ lastCall.effect.src = "data"

=============================================================================
